---- MODULE Spec2Model ----
(***************************************************************************)
(* A model of the managesieve crate (RFC 5804 wire grammar): the streaming *)
(* response parsers of src/src/parser.rs, the typed decode layer and the   *)
(* command encoder of src/src/types.rs.                                    *)
(*                                                                         *)
(* A &str is a sequence of Unicode scalar values (code points, as          *)
(* integers); its length in octets is the sum of the UTF-8 widths of its   *)
(* characters.  An IResult is a record whose field k is "Ok" (with rest    *)
(* and val), "Incomplete", "Error" or "Failure"; a Rust panic is "Panic".  *)
(* Option<T> is a sequence of length 0 (None) or 1 (Some).                 *)
(***************************************************************************)
EXTENDS Integers, Sequences, FiniteSets, TLC

VARIABLES
  dec,      \* the response_ function the client calls on what it receives
  sent,     \* <<R1, R2>>: what the server sends, R1 then R2
  recvd,    \* the number of characters of the stream received so far
  buf,      \* the client's buffer: received and not yet consumed
  last,     \* the latest call of dec since the last read: [input, res], or NoCall
  retried,  \* a call returned IncompleteResponse since the last success
  out,      \* the values decoded so far, in order
  call,     \* the latest constructor call: [ctor, name, arg], or NoCommand
  cmd,      \* what that call returned, or NoCommand
  bytes     \* Some(the wire string of the command), once it was converted

vars == <<dec, sent, recvd, buf, last, retried, out, call, cmd, bytes>>

----------------------------------------------------------------------------
(* Results and options *)

Ok(rest, val) == [k |-> "Ok", rest |-> rest, val |-> val]
Incomplete == [k |-> "Incomplete"]
Err == [k |-> "Error"]
Failure == [k |-> "Failure"]
Panic == [k |-> "Panic"]

None == <<>>
Some(x) == <<x>>

\* let x = v in F(x): v is evaluated once and F reads its value
Bind(v, F(_)) == F(v)

Drop(input, n) == SubSeq(input, n + 1, Len(input))
Take(input, n) == SubSeq(input, 1, n)

----------------------------------------------------------------------------
(* Characters *)

\* char::to_lowercase, restricted to ASCII letters
to_lowercase(c) == IF c >= 65 /\ c <= 90 THEN c + 32 ELSE c

\* char::is_ascii_digit
is_dec_digit(c) == c >= 48 /\ c <= 57

\* the UTF-8 width of a scalar value
len_utf8(c) == IF c < 128 THEN 1 ELSE IF c < 2048 THEN 2 ELSE IF c < 65536 THEN 3 ELSE 4

\* str::len: the length in octets
RECURSIVE str_len(_)
str_len(s) == IF s = <<>> THEN 0 ELSE len_utf8(Head(s)) + str_len(Tail(s))

\* usize::MAX (2^64 - 1), written in decimal
UsizeMaxDigits == <<49, 56, 52, 52, 54, 55, 52, 52, 48, 55, 51, 55, 48, 57, 53, 53, 49, 54, 49, 53>> (* 18446744073709551615 *)

----------------------------------------------------------------------------
(* nom's streaming combinators, as the parsers of parser.rs use them *)

\* bytes::streaming::tag: Error on the first mismatch, Incomplete when the
\* input is a proper prefix of the tag
tag(t, input) ==
  LET n == Len(t)
      m == Len(input)
      c == IF m < n THEN m ELSE n
  IN IF \E i \in 1..c : input[i] # t[i] THEN Err
     ELSE IF m >= n THEN Ok(Drop(input, n), Take(input, n))
     ELSE Incomplete

\* bytes::streaming::tag_no_case
tag_no_case(t, input) ==
  LET n == Len(t)
      m == Len(input)
      c == IF m < n THEN m ELSE n
  IN IF \E i \in 1..c : to_lowercase(input[i]) # to_lowercase(t[i]) THEN Err
     ELSE IF m >= n THEN Ok(Drop(input, n), Take(input, n))
     ELSE Incomplete

\* character::streaming::crlf
crlf(input) == tag(<<13, 10>> (* <CR><LF> *), input)

\* the index of the first character of input that does not satisfy P, or 0
FirstNot(P(_), input) ==
  IF \A i \in 1..Len(input) : P(input[i]) THEN 0
  ELSE CHOOSE i \in 1..Len(input) : ~P(input[i]) /\ \A j \in 1..(i - 1) : P(input[j])

\* split_at_position1 (streaming): one or more characters satisfying P;
\* Incomplete when the run reaches the end of the input
split_at_position1(P(_), input) ==
  LET i == FirstNot(P, input)
  IN IF i = 0 THEN Incomplete
     ELSE IF i = 1 THEN Err
     ELSE Ok(Drop(input, i - 1), Take(input, i - 1))

\* character::streaming::space1
space1(input) == split_at_position1(LAMBDA c : c = 32 \/ c = 9, input)

\* character::streaming::digit1
digit1(input) == split_at_position1(is_dec_digit, input)

\* character::streaming::none_of
none_of(list, input) ==
  IF input = <<>> THEN Incomplete
  ELSE IF Head(input) \in list THEN Err
  ELSE Ok(Tail(input), Head(input))

\* bytes::streaming::take, counting characters
take(count, input) ==
  IF Len(input) < count THEN Incomplete
  ELSE Ok(Drop(input, count), Take(input, count))

\* combinator::opt
opt(P(_), input) ==
  Bind(P(input), LAMBDA r :
    IF r.k = "Ok" THEN Ok(r.rest, Some(r.val))
    ELSE IF r.k = "Error" THEN Ok(input, None)
    ELSE r)

\* branch::alt of two parsers: the second is tried only on Error
alt(P(_), Q(_), input) ==
  Bind(P(input), LAMBDA r : IF r.k = "Error" THEN Q(input) ELSE r)

\* sequence::pair
pair(P(_), Q(_), input) ==
  Bind(P(input), LAMBDA a :
    IF a.k # "Ok" THEN a
    ELSE Bind(Q(a.rest), LAMBDA b :
           IF b.k # "Ok" THEN b ELSE Ok(b.rest, <<a.val, b.val>>)))

\* sequence::preceded
preceded(P(_), Q(_), input) ==
  Bind(pair(P, Q, input), LAMBDA r : IF r.k = "Ok" THEN Ok(r.rest, r.val[2]) ELSE r)

\* sequence::terminated
terminated(P(_), Q(_), input) ==
  Bind(pair(P, Q, input), LAMBDA r : IF r.k = "Ok" THEN Ok(r.rest, r.val[1]) ELSE r)

\* combinator::map and combinator::value
map(P(_), F(_), input) ==
  Bind(P(input), LAMBDA r : IF r.k = "Ok" THEN Ok(r.rest, F(r.val)) ELSE r)

\* multi::many0: stops at the first Error, hands on Incomplete and Failure,
\* and fails when the parser consumed nothing
RECURSIVE many0_acc(_, _, _)
many0_acc(P(_), input, acc) ==
  Bind(P(input), LAMBDA r :
    IF r.k = "Error" THEN Ok(input, acc)
    ELSE IF r.k # "Ok" THEN r
    ELSE IF Len(r.rest) = Len(input) THEN Err
    ELSE many0_acc(P, r.rest, Append(acc, r.val)))

many0(P(_), input) == many0_acc(P, input, <<>>)

\* str::parse::<usize> of a run of decimal digits
RECURSIVE parse_digits(_, _)
parse_digits(s, acc) ==
  IF s = <<>> THEN acc ELSE parse_digits(Tail(s), acc * 10 + (Head(s) - 48))

\* a run of digits without its leading zeros
RECURSIVE strip_zeros(_)
strip_zeros(d) == IF d # <<>> /\ Head(d) = 48 THEN strip_zeros(Tail(d)) ELSE d

\* the decimal number d (no leading zeros) exceeds usize::MAX
overflows(d) ==
  \/ Len(d) > Len(UsizeMaxDigits)
  \/ /\ Len(d) = Len(UsizeMaxDigits)
     /\ \E i \in 1..Len(d) : /\ d[i] > UsizeMaxDigits[i]
                              /\ \A j \in 1..(i - 1) : d[j] = UsizeMaxDigits[j]

\* str::parse::<usize>: an optional +, then one or more digits, no overflow
parse_usize(s) ==
  Bind(IF s # <<>> /\ Head(s) = 43 THEN Tail(s) ELSE s, LAMBDA d :
    IF d = <<>> \/ \E i \in 1..Len(d) : ~is_dec_digit(d[i]) THEN None
    ELSE Bind(strip_zeros(d), LAMBDA z :
           IF overflows(z) THEN None ELSE Some(parse_digits(z, 0))))

\* the byte offset n is a character boundary of s (str::is_char_boundary)
RECURSIVE is_char_boundary(_, _)
is_char_boundary(s, n) ==
  IF n = 0 THEN TRUE
  ELSE IF s = <<>> THEN FALSE
  ELSE IF len_utf8(Head(s)) > n THEN FALSE
  ELSE is_char_boundary(Tail(s), n - len_utf8(Head(s)))

\* the number of characters in the first n octets of s
RECURSIVE chars_in(_, _)
chars_in(s, n) ==
  IF n <= 0 \/ s = <<>> THEN 0 ELSE 1 + chars_in(Tail(s), n - len_utf8(Head(s)))

\* multi::length_data over &str: the length counts octets; take_split
\* panics when the offset is not a character boundary
length_data(F(_), input) ==
  Bind(F(input), LAMBDA r :
    IF r.k # "Ok" THEN r
    ELSE IF r.val > str_len(r.rest) THEN Incomplete
    ELSE IF ~is_char_boundary(r.rest, r.val) THEN Panic
    ELSE Bind(chars_in(r.rest, r.val), LAMBDA n :
           Ok(Drop(r.rest, n), Take(r.rest, n))))

----------------------------------------------------------------------------
(* parser.rs *)

ok(input) == map(LAMBDA i : tag_no_case(<<79, 75>> (* OK *), i), LAMBDA v : "Ok", input)

no(input) == map(LAMBDA i : tag_no_case(<<78, 79>> (* NO *), i), LAMBDA v : "No", input)

bye(input) == map(LAMBDA i : tag_no_case(<<66, 89, 69>> (* BYE *), i), LAMBDA v : "Bye", input)

nobye(input) == alt(no, bye, input)

\* the atoms of atom(), in the order alt tries them, each with its ResponseCode
Atoms ==
  << <<<<65, 85, 84, 72, 45, 84, 79, 79, 45, 87, 69, 65, 75>> (* AUTH-TOO-WEAK *), "AuthTooWeak">>,
     <<<<69, 78, 67, 82, 89, 80, 84, 45, 78, 69, 69, 68, 69, 68>> (* ENCRYPT-NEEDED *), "EncryptNeeded">>,
     <<<<81, 85, 79, 84, 65, 47, 77, 65, 88, 83, 67, 82, 73, 80, 84, 83>> (* QUOTA/MAXSCRIPTS *), "Quota(MaxScripts)">>,
     <<<<81, 85, 79, 84, 65, 47, 77, 65, 88, 83, 73, 90, 69>> (* QUOTA/MAXSIZE *), "Quota(MaxSize)">>,
     <<<<81, 85, 79, 84, 65>> (* QUOTA *), "Quota(None)">>,
     <<<<82, 69, 70, 69, 82, 82, 65, 76>> (* REFERRAL *), "Referral">>,
     <<<<83, 65, 83, 76>> (* SASL *), "Sasl">>,
     <<<<84, 82, 65, 78, 83, 73, 84, 73, 79, 78, 45, 78, 69, 69, 68, 69, 68>> (* TRANSITION-NEEDED *), "TransitionNeeded">>,
     <<<<84, 82, 89, 76, 65, 84, 69, 82>> (* TRYLATER *), "TryLater">>,
     <<<<65, 67, 84, 73, 86, 69>> (* ACTIVE *), "Active">>,
     <<<<78, 79, 78, 69, 88, 73, 83, 84, 69, 78, 84>> (* NONEXISTENT *), "Nonexistent">>,
     <<<<65, 76, 82, 69, 65, 68, 89, 69, 88, 73, 83, 84, 83>> (* ALREADYEXISTS *), "AlreadyExists">>,
     <<<<84, 65, 71>> (* TAG *), "Tag">>,
     <<<<87, 65, 82, 78, 73, 78, 71, 83>> (* WARNINGS *), "Warnings">> >>

RECURSIVE atom_from(_, _)
atom_from(i, input) ==
  IF i > Len(Atoms) THEN Err
  ELSE Bind(tag(Atoms[i][1], input), LAMBDA r :
         IF r.k = "Ok" THEN Ok(r.rest, Atoms[i][2])
         ELSE IF r.k = "Error" THEN atom_from(i + 1, input)
         ELSE r)

atom(input) == atom_from(1, input)

\* map_res(digit1, |s| s.parse::<usize>())
digits_usize(input) ==
  Bind(digit1(input), LAMBDA d :
    IF d.k # "Ok" THEN d
    ELSE Bind(parse_usize(d.val), LAMBDA n :
           IF n = None THEN Err ELSE Ok(d.rest, n[1])))

\* sequence::delimited
delimited(P(_), Q(_), R(_), input) ==
  preceded(P, LAMBDA i : terminated(Q, R, i), input)

literal_s2c_len(input) ==
  terminated(
    LAMBDA i : delimited(LAMBDA j : tag(<<123>> (* { *), j), digits_usize, LAMBDA j : tag(<<125>> (* } *), j), i),
    crlf, input)

literal_s2c(input) == length_data(literal_s2c_len, input)

\* escaped_transform(none_of(r#"\""#), '\\', take(1)), from index on; res is
\* the string built so far
RECURSIVE escaped_transform(_, _, _)
escaped_transform(input, index, res) ==
  IF index >= Len(input) THEN Incomplete
  ELSE Bind(Drop(input, index), LAMBDA remainder :
         Bind(none_of({92, 34}, remainder), LAMBDA n :
           IF n.k = "Ok"
           THEN IF Len(n.rest) = 0 THEN Incomplete
                ELSE IF Len(n.rest) = Len(input) THEN Ok(remainder, res)
                ELSE escaped_transform(input, index + 1, Append(res, n.val))
           ELSE IF n.k = "Error"
           THEN IF Head(remainder) = 92
                THEN IF index + 1 >= Len(input) THEN Incomplete
                     ELSE Bind(take(1, Drop(input, index + 1)), LAMBDA t :
                            IF t.k # "Ok" THEN t
                            ELSE IF Len(t.rest) = 0 THEN Incomplete
                            ELSE escaped_transform(input, index + 2, res \o t.val))
                ELSE Ok(remainder, res)
           ELSE n))

quoted_string(input) ==
  delimited(LAMBDA i : tag(<<34>> (* <DQ> *), i),
            LAMBDA i : escaped_transform(i, 0, <<>>),
            LAMBDA i : tag(<<34>> (* <DQ> *), i), input)

sievestring_s2c(input) == alt(literal_s2c, quoted_string, input)

code(input) ==
  delimited(
    LAMBDA i : tag(<<40>> (* <LP> *), i),
    LAMBDA i : pair(atom,
                    LAMBDA j : opt(LAMBDA l : preceded(space1, sievestring_s2c, l), j),
                    i),
    LAMBDA i : tag(<<41>> (* <RP> *), i), input)

\* tuple((tag, opt(preceded(space1, code)), opt(preceded(space1, quoted_string))))
\* terminated by crlf, mapped to a Response
tag_line(T(_), input) ==
  terminated(
    LAMBDA i :
      map(LAMBDA j :
            pair(T,
                 LAMBDA l : pair(LAMBDA m : opt(LAMBDA n : preceded(space1, code, n), m),
                                 LAMBDA m : opt(LAMBDA n : preceded(space1, quoted_string, n), m),
                                 l),
                 j),
          LAMBDA v : [tag |-> v[1], code |-> v[2][1], human |-> v[2][2]],
          i),
    crlf, input)

response_ok(input) == tag_line(ok, input)

response_nobye(input) == tag_line(nobye, input)

response(input) == alt(response_ok, response_nobye, input)

\* separated_pair(sievestring_s2c, crlf, response_ok), mapped to (Some(s), r)
script_then_ok(input) ==
  map(LAMBDA i : pair(LAMBDA j : terminated(sievestring_s2c, crlf, j), response_ok, i),
      LAMBDA v : <<Some(v[1]), v[2]>>, input)

\* map(response_nobye, |r| (None-or-empty, r))
nobye_only(empty, input) == map(response_nobye, LAMBDA r : <<empty, r>>, input)

p_response_getscript(input) ==
  alt(script_then_ok, LAMBDA i : nobye_only(None, i), input)

\* the active mark read the wrong way round (is_none for is_some)
active_mark_inverted(input) ==
  map(LAMBDA i : opt(LAMBDA j : pair(space1, LAMBDA l : tag_no_case(<<65, 67, 84, 73, 86, 69>> (* ACTIVE *), l), j), i),
      LAMBDA o : o = None, input)

\* map(opt(pair(space1, tag_no_case("ACTIVE"))), |o| o.is_some())
active_mark(input) ==
  map(LAMBDA i : opt(LAMBDA j : pair(space1, LAMBDA l : tag_no_case(<<65, 67, 84, 73, 86, 69>> (* ACTIVE *), l), j), i),
      LAMBDA o : o # None, input)

\* terminated(pair(sievestring_s2c, active mark), crlf): one line of the list
script_line(input) ==
  terminated(LAMBDA i : pair(sievestring_s2c, active_mark, i), crlf, input)

p_response_listscripts(input) ==
  pair(LAMBDA i : many0(script_line, i), response, input)

single_capability(input) ==
  terminated(
    LAMBDA i : pair(sievestring_s2c,
                    LAMBDA j : opt(LAMBDA l : preceded(space1, sievestring_s2c, l), j),
                    i),
    crlf, input)

p_response_capability(input) ==
  pair(LAMBDA i : many0(single_capability, i), response, input)

p_response_starttls(input) ==
  alt(LAMBDA i : preceded(response_ok, p_response_capability, i),
      LAMBDA i : nobye_only(<<>>, i), input)

\* Either::Left is <<"Left", s>>, Either::Right is <<"Right", r>>
p_response_authenticate_initial(input) ==
  alt(LAMBDA i : map(LAMBDA j : terminated(sievestring_s2c, crlf, j),
                     LAMBDA s : <<"Left", s>>, i),
      LAMBDA i : map(response_nobye, LAMBDA r : <<"Right", r>>, i),
      input)

\* pair(response_ok, opt(response_capability)), mapped
ok_then_capabilities(input) ==
  map(LAMBDA i : pair(response_ok, LAMBDA j : opt(p_response_capability, j), i),
      LAMBDA v : IF v[2] = None THEN <<None, v[1]>>
                 ELSE <<Some(v[2][1][1]), v[2][1][2]>>,
      input)

p_response_authenticate_complete(input) ==
  alt(ok_then_capabilities, LAMBDA i : nobye_only(None, i), input)

\* the check of a name's characters without its range above U+007F
is_bad_sieve_name_char_ascii(c) ==
  IF c <= 31 THEN TRUE
  ELSE IF c = 127 THEN TRUE
  ELSE FALSE

\* see section 1.6 of rfc 5804
is_bad_sieve_name_char(c) ==
  IF c <= 31 THEN TRUE
  ELSE IF c >= 127 /\ c <= 159 THEN TRUE
  ELSE IF c = 8232 \/ c = 8233 THEN TRUE
  ELSE FALSE

----------------------------------------------------------------------------
(* types.rs: the typed decode layer *)

\* Err(e) of a Result<_, Error>
Fail(e) == [k |-> "Err", err |-> e]

\* the conversion with Error and Incomplete confused
Error_from_confused(r) ==
  IF r.k = "Error" THEN "IncompleteResponse" ELSE "InvalidInput"

\* impl From<nom::Err<T>> for Error
Error_from(r) ==
  IF r.k = "Incomplete" THEN "IncompleteResponse"
  ELSE IF r.k = "Error" THEN "InvalidInput"
  ELSE "InvalidInput"

\* str::split(' ')
RECURSIVE split_acc(_, _, _)
split_acc(s, cur, acc) ==
  IF s = <<>> THEN Append(acc, cur)
  ELSE IF Head(s) = 32 THEN split_acc(Tail(s), <<>>, Append(acc, cur))
  ELSE split_acc(Tail(s), Append(cur, Head(s)), acc)

split(s) == split_acc(s, <<>>, <<>>)

\* rest.map(|o| o.to_owned()).ok_or_else(err)
unwrap_rest(rest) == IF rest = None THEN [k |-> "Err"] ELSE [k |-> "Ok", val |-> rest[1]]

\* rest.map(|r| r.split(' ')...collect()).ok_or_else(err)
unwrap_rest_vec(rest) ==
  IF rest = None THEN [k |-> "Err"] ELSE [k |-> "Ok", val |-> split(rest[1])]

\* Capability::X(v?) for an Ok v
Wrap(variant, r) == IF r.k = "Ok" THEN [k |-> "Ok", val |-> <<variant, r.val>>] ELSE r

\* unwrap_rest()?.parse::<usize>().map_err(|_| err())?
max_redirects(rest) ==
  Bind(unwrap_rest(rest), LAMBDA r :
    IF r.k # "Ok" THEN r
    ELSE Bind(parse_usize(r.val), LAMBDA n :
           IF n = None THEN [k |-> "Err"] ELSE [k |-> "Ok", val |-> <<"MaxRedirects", n[1]>>]))

\* impl TryFrom<(&str, Option<&str>)> for Capability
Capability_try_from(cap, rest) ==
  IF cap = <<73, 77, 80, 76, 69, 77, 69, 78, 84, 65, 84, 73, 79, 78>> (* IMPLEMENTATION *) THEN Wrap("Implementation", unwrap_rest(rest))
  ELSE IF cap = <<83, 65, 83, 76>> (* SASL *) THEN Wrap("Sasl", unwrap_rest_vec(rest))
  ELSE IF cap = <<83, 73, 69, 86, 69>> (* SIEVE *) THEN Wrap("Sieve", unwrap_rest_vec(rest))
  ELSE IF cap = <<83, 84, 65, 82, 84, 84, 76, 83>> (* STARTTLS *) THEN [k |-> "Ok", val |-> <<"StartTls">>]
  ELSE IF cap = <<77, 65, 88, 82, 69, 68, 73, 82, 69, 67, 84, 83>> (* MAXREDIRECTS *) THEN max_redirects(rest)
  ELSE IF cap = <<78, 79, 84, 73, 70, 89>> (* NOTIFY *) THEN Wrap("Notify", unwrap_rest_vec(rest))
  ELSE IF cap = <<76, 65, 78, 71, 85, 65, 71, 69>> (* LANGUAGE *) THEN Wrap("Owner", unwrap_rest(rest))
  ELSE IF cap = <<79, 87, 78, 69, 82>> (* OWNER *) THEN Wrap("Owner", unwrap_rest(rest))
  ELSE IF cap = <<86, 69, 82, 83, 73, 79, 78>> (* VERSION *) THEN Wrap("Version", unwrap_rest(rest))
  ELSE [k |-> "Ok", val |-> <<"Unknown", cap, rest>>]

\* s.iter().map(|(cap, rest)| Capability::try_from(..).unwrap()).collect():
\* the capabilities in the order of s, or a panic at the first Err
collect_caps(s) ==
  IF \E i \in 1..Len(s) : Capability_try_from(s[i][1], s[i][2]).k # "Ok" THEN Panic
  ELSE [k |-> "Ok", val |-> [i \in 1..Len(s) |-> Capability_try_from(s[i][1], s[i][2]).val]]

\* the tag line decoder handing back no remainder
response_oknobye_no_rest(input) ==
  Bind(response(input), LAMBDA r :
    IF r.k = "Ok" THEN Ok(<<>>, r.val)
    ELSE IF r.k = "Panic" THEN r
    ELSE Fail(Error_from(r)))

response_oknobye(input) ==
  Bind(response(input), LAMBDA r :
    IF r.k = "Ok" \/ r.k = "Panic" THEN r ELSE Fail(Error_from(r)))

\* unimplemented!()
response_authenticate(input) == Panic

response_logout(input) == response_oknobye(input)

response_getscript(input) ==
  Bind(p_response_getscript(input), LAMBDA r :
    IF r.k = "Panic" THEN r
    ELSE IF r.k = "Ok" /\ r.val[1] # None THEN Ok(r.rest, <<r.val[1][1], r.val[2]>>)
    ELSE IF r.k = "Incomplete" THEN Fail("IncompleteResponse")
    ELSE Fail("InvalidResponse"))

response_setactive(input) == response_oknobye(input)

\* s.iter().filter(|(_, is_active)| *is_active).count()
active_count(s) == Cardinality({i \in 1..Len(s) : s[i][2]})

\* the check of the active scripts off by one (> 2 for > 1)
response_listscripts_two_active(input) ==
  Bind(p_response_listscripts(input), LAMBDA r :
    IF r.k = "Panic" THEN r
    ELSE IF r.k = "Ok"
    THEN IF active_count(r.val[1]) > 2 THEN Fail("InvalidResponse")
         ELSE Ok(r.rest, r.val)
    ELSE IF r.k = "Incomplete" THEN Fail("IncompleteResponse")
    ELSE Fail("InvalidResponse"))

response_listscripts(input) ==
  Bind(p_response_listscripts(input), LAMBDA r :
    IF r.k = "Panic" THEN r
    ELSE IF r.k = "Ok"
    THEN IF active_count(r.val[1]) > 1 THEN Fail("InvalidResponse")
         ELSE Ok(r.rest, r.val)
    ELSE IF r.k = "Incomplete" THEN Fail("IncompleteResponse")
    ELSE Fail("InvalidResponse"))

response_deletescript(input) == response_oknobye(input)

response_putscript(input) == response_oknobye(input)

response_checkscript(input) == response_oknobye(input)

\* the body shared by response_capability and response_starttls
typed_capabilities(r) ==
  IF r.k = "Panic" THEN r
  ELSE IF r.k = "Ok"
  THEN Bind(collect_caps(r.val[1]), LAMBDA caps :
         IF caps.k # "Ok" THEN Panic ELSE Ok(r.rest, <<caps.val, r.val[2]>>))
  ELSE IF r.k = "Incomplete" THEN Fail("IncompleteResponse")
  ELSE Fail("InvalidResponse")

response_capability(input) == Bind(p_response_capability(input), typed_capabilities)

response_havespace(input) == response_oknobye(input)

response_starttls(input) == Bind(p_response_starttls(input), typed_capabilities)

response_renamescript(input) == response_oknobye(input)

response_noop(input) ==
  Bind(response_oknobye(input), LAMBDA r :
    IF r.k = "Ok" /\ r.val.tag # "Ok" THEN Fail("InvalidResponse") ELSE r)

response_unauthenticate(input) == response_oknobye(input)

----------------------------------------------------------------------------
(* types.rs: commands and their encoding *)

to_sieve_name(s) ==
  IF \E i \in 1..Len(s) : is_bad_sieve_name_char(s[i]) THEN Fail("InvalidInput")
  ELSE [k |-> "Ok", val |-> s]

\* a constructor taking a name: Ok(Command::X(to_sieve_name(name)?, ..))
Named(variant, name, arg) ==
  Bind(to_sieve_name(name), LAMBDA n :
    IF n.k # "Ok" THEN n ELSE [k |-> "Ok", val |-> [t |-> variant, name |-> n.val, arg |-> arg]])

\* a constructor taking nothing
Plain(variant) == [k |-> "Ok", val |-> [t |-> variant]]

have_space(name, size) == Named("HaveSpace", name, size)
put_script(name, script) == Named("PutScript", name, script)
set_active(name) == Named("SetActive", name, <<>>)
deletescript(name) == Named("DeleteScript", name, <<>>)
renamescript(name) == Named("RenameScript", name, <<>>)
checkscript(name) == Named("CheckScript", name, <<>>)

\* the Display of a usize: its decimal digits
RECURSIVE fmt_usize(_)
fmt_usize(n) == IF n < 10 THEN <<48 + n>> ELSE Append(fmt_usize(n \div 10), 48 + (n % 10))

to_qs(s) == <<34>> (* <DQ> *) \o s \o <<34>> (* <DQ> *)

\* the literal's length counted in characters (chars().count() for len())
to_lit_c2s_chars(s) == <<123>> (* { *) \o fmt_usize(Len(s)) \o <<43, 125, 13, 10>> (* +}<CR><LF> *) \o s

to_lit_c2s(s) == <<123>> (* { *) \o fmt_usize(str_len(s)) \o <<43, 125, 13, 10>> (* +}<CR><LF> *) \o s

\* impl ToString for Command
to_string(c) ==
  IF c.t = "Authenticate" THEN <<65, 85, 84, 72, 69, 78, 84, 73, 67, 65, 84, 69, 13, 10>> (* AUTHENTICATE<CR><LF> *)
  ELSE IF c.t = "StartTls" THEN <<83, 84, 65, 82, 84, 84, 76, 83, 13, 10>> (* STARTTLS<CR><LF> *)
  ELSE IF c.t = "Logout" THEN <<76, 79, 71, 79, 85, 84, 13, 10>> (* LOGOUT<CR><LF> *)
  ELSE IF c.t = "Capability" THEN <<67, 65, 80, 65, 66, 73, 76, 73, 84, 89, 13, 10>> (* CAPABILITY<CR><LF> *)
  ELSE IF c.t = "HaveSpace"
  THEN <<72, 65, 86, 69, 83, 80, 65, 67, 69, 32>> (* HAVESPACE  *) \o to_qs(c.name) \o <<32>> (*   *) \o fmt_usize(c.arg) \o <<13, 10>> (* <CR><LF> *)
  ELSE IF c.t = "PutScript"
  THEN <<80, 85, 84, 83, 67, 82, 73, 80, 84, 32>> (* PUTSCRIPT  *) \o to_qs(c.name) \o <<32>> (*   *) \o to_lit_c2s(c.arg) \o <<13, 10>> (* <CR><LF> *)
  ELSE IF c.t = "ListScripts" THEN <<76, 73, 83, 84, 83, 67, 82, 73, 80, 84, 83, 13, 10>> (* LISTSCRIPTS<CR><LF> *)
  ELSE IF c.t = "SetActive" THEN <<83, 69, 84, 65, 67, 84, 73, 86, 69, 32>> (* SETACTIVE  *) \o to_qs(c.name) \o <<13, 10>> (* <CR><LF> *)
  ELSE IF c.t = "DeleteScript" THEN <<68, 69, 76, 69, 84, 69, 83, 67, 82, 73, 80, 84, 32>> (* DELETESCRIPT  *) \o to_qs(c.name) \o <<13, 10>> (* <CR><LF> *)
  ELSE IF c.t = "RenameScript" THEN <<82, 69, 78, 65, 77, 69, 83, 67, 82, 73, 80, 84, 32>> (* RENAMESCRIPT  *) \o to_qs(c.name) \o <<13, 10>> (* <CR><LF> *)
  ELSE IF c.t = "CheckScript" THEN <<67, 72, 69, 67, 75, 83, 67, 82, 73, 80, 84, 32>> (* CHECKSCRIPT  *) \o to_qs(c.name) \o <<13, 10>> (* <CR><LF> *)
  ELSE IF c.t = "Noop" THEN <<78, 79, 79, 80, 13, 10>> (* NOOP<CR><LF> *)
  ELSE <<85, 78, 65, 85, 84, 72, 69, 78, 84, 73, 67, 65, 84, 69, 13, 10>> (* UNAUTHENTICATE<CR><LF> *)

authenticate == Plain("Authenticate")
start_tls == Plain("StartTls")
logout == Plain("Logout")
capability == Plain("Capability")
list_scripts == Plain("ListScripts")
noop == Plain("Noop")
unauthenticate == Plain("UnAuthenticate")

----------------------------------------------------------------------------
(* The inputs: what a server may send in answer to each command *)

MaxScripts == 2
MaxCaps == 2

RECURSIVE Flatten(_)
Flatten(ss) == IF ss = <<>> THEN <<>> ELSE Head(ss) \o Flatten(Tail(ss))

\* the sequences of at most n elements of S
SeqsUpTo(S, n) == UNION {[1..m -> S] : m \in 0..n}

TagLines ==
  { <<79, 75, 13, 10>> (* OK<CR><LF> *), <<110, 111, 13, 10>> (* no<CR><LF> *), <<66, 121, 101, 13, 10>> (* Bye<CR><LF> *),
    <<79, 75, 32, 40, 83, 65, 83, 76, 32, 34, 120, 34, 41, 13, 10>> (* OK <LP>SASL <DQ>x<DQ><RP><CR><LF> *),
    <<78, 79, 32, 40, 81, 85, 79, 84, 65, 47, 77, 65, 88, 83, 73, 90, 69, 41, 32, 34, 97, 92, 34, 98, 34, 13, 10>> (* NO <LP>QUOTA/MAXSIZE<RP> <DQ>a<BS><DQ>b<DQ><CR><LF> *),
    <<66, 89, 69, 32, 40, 84, 65, 71, 32, 123, 50, 125, 13, 10, 13, 125, 41, 32, 34, 34, 13, 10>> (* BYE <LP>TAG {2}<CR><LF><CR>}<RP> <DQ><DQ><CR><LF> *),
    <<79, 75, 32, 34, 104, 105, 34, 13, 10>> (* OK <DQ>hi<DQ><CR><LF> *),
    <<79, 75, 32, 40, 70, 79, 79, 41, 13, 10>> (* OK <LP>FOO<RP><CR><LF> *),
    <<72, 73, 13, 10>> (* HI<CR><LF> *),
    <<78, 79, 32, 32, 40, 81, 85, 79, 84, 65, 41, 9, 34, 120, 34, 32, 13, 10>> (* NO  <LP>QUOTA<RP><TAB><DQ>x<DQ> <CR><LF> *) }

ShortTagLines == { <<79, 75, 13, 10>> (* OK<CR><LF> *), <<78, 79, 32, 40, 65, 67, 84, 73, 86, 69, 41, 13, 10>> (* NO <LP>ACTIVE<RP><CR><LF> *) }

\* what may follow a response in the stream: nothing, the next response
\* (whole or cut short), or bytes of no response
Followers == { <<>>, <<79, 75, 13, 10>> (* OK<CR><LF> *), <<78, 79, 13, 10>> (* NO<CR><LF> *), <<34, 120, 34, 13, 10, 79, 75, 13, 10>> (* <DQ>x<DQ><CR><LF>OK<CR><LF> *), <<125, 123>> (* }{ *) }

GetScripts ==
  { <<34, 115, 34, 13, 10, 79, 75, 13, 10>> (* <DQ>s<DQ><CR><LF>OK<CR><LF> *),
    <<123, 52, 125, 13, 10, 97, 13, 10, 34, 13, 10, 111, 107, 32, 34, 100, 111, 110, 101, 34, 13, 10>> (* {4}<CR><LF>a<CR><LF><DQ><CR><LF>ok <DQ>done<DQ><CR><LF> *),
    <<34, 97, 92, 92, 34, 13, 10, 79, 75, 32, 40, 87, 65, 82, 78, 73, 78, 71, 83, 41, 13, 10>> (* <DQ>a<BS><BS><DQ><CR><LF>OK <LP>WARNINGS<RP><CR><LF> *),
    <<78, 79, 13, 10>> (* NO<CR><LF> *), <<66, 89, 69, 32, 40, 78, 79, 78, 69, 88, 73, 83, 84, 69, 78, 84, 41, 13, 10>> (* BYE <LP>NONEXISTENT<RP><CR><LF> *),
    <<79, 75, 13, 10>> (* OK<CR><LF> *), <<34, 115, 34, 13, 10, 78, 79, 13, 10>> (* <DQ>s<DQ><CR><LF>NO<CR><LF> *), <<34, 115, 34, 32, 79, 75, 13, 10>> (* <DQ>s<DQ> OK<CR><LF> *) }

ScriptLines == { <<34, 97, 34, 13, 10>> (* <DQ>a<DQ><CR><LF> *), <<34, 98, 34, 32, 65, 67, 84, 73, 86, 69, 13, 10>> (* <DQ>b<DQ> ACTIVE<CR><LF> *), <<34, 99, 34, 32, 97, 99, 116, 105, 118, 101, 13, 10>> (* <DQ>c<DQ> active<CR><LF> *) }

ListScripts ==
  { Flatten(ls) \o t : ls \in SeqsUpTo(ScriptLines, MaxScripts), t \in ShortTagLines }
  \cup { <<34, 97, 34, 13, 10, 34, 98, 34, 32, 65, 67, 84, 73, 86, 69, 13, 10, 34, 99, 34, 32, 97, 99, 116, 105, 118, 101, 13, 10, 79, 75, 13, 10>> (* <DQ>a<DQ><CR><LF><DQ>b<DQ> ACTIVE<CR><LF><DQ>c<DQ> active<CR><LF>OK<CR><LF> *),
         <<123, 49, 125, 13, 10, 100, 32, 65, 67, 84, 73, 86, 69, 13, 10, 123, 48, 125, 13, 10, 13, 10, 79, 75, 13, 10>> (* {1}<CR><LF>d ACTIVE<CR><LF>{0}<CR><LF><CR><LF>OK<CR><LF> *),
         <<34, 97, 34, 32, 65, 67, 84, 73, 86, 69, 32, 13, 10, 79, 75, 13, 10>> (* <DQ>a<DQ> ACTIVE <CR><LF>OK<CR><LF> *),
         <<34, 97, 34, 32, 32, 97, 67, 116, 73, 118, 69, 13, 10, 34, 98, 34, 9, 65, 67, 84, 73, 86, 69, 13, 10, 66, 89, 69, 13, 10>> (* <DQ>a<DQ>  aCtIvE<CR><LF><DQ>b<DQ><TAB>ACTIVE<CR><LF>BYE<CR><LF> *),
         <<34, 104, 101, 31, 34, 13, 10, 79, 75, 13, 10>> (* <DQ>he<U+001F><DQ><CR><LF>OK<CR><LF> *),
         <<34, 8232, 34, 32, 65, 67, 84, 73, 86, 69, 13, 10, 123, 49, 125, 13, 10, 127, 13, 10, 79, 75, 13, 10>> (* <DQ><U+2028><DQ> ACTIVE<CR><LF>{1}<CR><LF><U+007F><CR><LF>OK<CR><LF> *) }

\* one line for every capability name the crate knows, with a value
KnownCapLines ==
  { <<34, 73, 77, 80, 76, 69, 77, 69, 78, 84, 65, 84, 73, 79, 78, 34, 32, 34, 120, 34, 13, 10>> (* <DQ>IMPLEMENTATION<DQ> <DQ>x<DQ><CR><LF> *), <<34, 83, 65, 83, 76, 34, 32, 34, 80, 76, 65, 73, 78, 32, 76, 79, 71, 73, 78, 34, 13, 10>> (* <DQ>SASL<DQ> <DQ>PLAIN LOGIN<DQ><CR><LF> *),
    <<34, 83, 73, 69, 86, 69, 34, 32, 34, 102, 105, 108, 101, 105, 110, 116, 111, 34, 13, 10>> (* <DQ>SIEVE<DQ> <DQ>fileinto<DQ><CR><LF> *), <<34, 83, 84, 65, 82, 84, 84, 76, 83, 34, 13, 10>> (* <DQ>STARTTLS<DQ><CR><LF> *),
    <<34, 77, 65, 88, 82, 69, 68, 73, 82, 69, 67, 84, 83, 34, 32, 34, 53, 34, 13, 10>> (* <DQ>MAXREDIRECTS<DQ> <DQ>5<DQ><CR><LF> *), <<34, 78, 79, 84, 73, 70, 89, 34, 32, 34, 109, 97, 105, 108, 116, 111, 34, 13, 10>> (* <DQ>NOTIFY<DQ> <DQ>mailto<DQ><CR><LF> *),
    <<34, 76, 65, 78, 71, 85, 65, 71, 69, 34, 32, 34, 101, 110, 34, 13, 10>> (* <DQ>LANGUAGE<DQ> <DQ>en<DQ><CR><LF> *), <<34, 79, 87, 78, 69, 82, 34, 32, 34, 109, 101, 34, 13, 10>> (* <DQ>OWNER<DQ> <DQ>me<DQ><CR><LF> *),
    <<34, 86, 69, 82, 83, 73, 79, 78, 34, 32, 34, 49, 46, 48, 34, 13, 10>> (* <DQ>VERSION<DQ> <DQ>1.0<DQ><CR><LF> *) }

OtherCapLines ==
  { <<34, 88, 70, 79, 79, 34, 13, 10>> (* <DQ>XFOO<DQ><CR><LF> *), <<34, 115, 97, 115, 108, 34, 32, 123, 49, 125, 13, 10, 120, 13, 10>> (* <DQ>sasl<DQ> {1}<CR><LF>x<CR><LF> *), <<34, 77, 65, 88, 82, 69, 68, 73, 82, 69, 67, 84, 83, 34, 32, 34, 120, 34, 13, 10>> (* <DQ>MAXREDIRECTS<DQ> <DQ>x<DQ><CR><LF> *),
    <<34, 77, 65, 88, 82, 69, 68, 73, 82, 69, 67, 84, 83, 34, 13, 10>> (* <DQ>MAXREDIRECTS<DQ><CR><LF> *), <<34, 83, 65, 83, 76, 34, 13, 10>> (* <DQ>SASL<DQ><CR><LF> *), <<34, 79, 119, 110, 101, 114, 34, 32, 34, 109, 101, 34, 13, 10>> (* <DQ>Owner<DQ> <DQ>me<DQ><CR><LF> *),
    <<34, 83, 73, 69, 86, 69, 34, 32, 34, 97, 32, 32, 98, 34, 13, 10>> (* <DQ>SIEVE<DQ> <DQ>a  b<DQ><CR><LF> *), <<34, 77, 65, 88, 82, 69, 68, 73, 82, 69, 67, 84, 83, 34, 32, 34, 45, 49, 34, 13, 10>> (* <DQ>MAXREDIRECTS<DQ> <DQ>-1<DQ><CR><LF> *) }

\* the lines the multi-line answers are made of
CapLines == { <<34, 83, 65, 83, 76, 34, 32, 34, 65, 32, 66, 34, 13, 10>> (* <DQ>SASL<DQ> <DQ>A B<DQ><CR><LF> *), <<34, 88, 34, 13, 10>> (* <DQ>X<DQ><CR><LF> *) }

Capabilities ==
  { l \o <<79, 75, 13, 10>> (* OK<CR><LF> *) : l \in KnownCapLines \cup OtherCapLines }
  \cup { Flatten(ls) \o t : ls \in SeqsUpTo(CapLines, MaxCaps), t \in ShortTagLines }
  \cup { <<34, 83, 65, 83, 76, 34, 32, 34, 80, 76, 65, 73, 78, 32, 76, 79, 71, 73, 78, 34, 13, 10, 34, 83, 73, 69, 86, 69, 34, 32, 34, 102, 105, 108, 101, 105, 110, 116, 111, 34, 13, 10, 79, 75, 13, 10>> (* <DQ>SASL<DQ> <DQ>PLAIN LOGIN<DQ><CR><LF><DQ>SIEVE<DQ> <DQ>fileinto<DQ><CR><LF>OK<CR><LF> *) }

StartTlss ==
  { <<79, 75, 13, 10>> (* OK<CR><LF> *) \o Flatten(ls) \o <<79, 75, 13, 10>> (* OK<CR><LF> *) : ls \in SeqsUpTo(CapLines, MaxCaps) }
  \cup { <<78, 79, 13, 10>> (* NO<CR><LF> *), <<66, 89, 69, 32, 40, 69, 78, 67, 82, 89, 80, 84, 45, 78, 69, 69, 68, 69, 68, 41, 13, 10>> (* BYE <LP>ENCRYPT-NEEDED<RP><CR><LF> *), <<79, 75, 13, 10, 34, 77, 65, 88, 82, 69, 68, 73, 82, 69, 67, 84, 83, 34, 32, 34, 43, 53, 34, 13, 10, 79, 75, 13, 10>> (* OK<CR><LF><DQ>MAXREDIRECTS<DQ> <DQ>+5<DQ><CR><LF>OK<CR><LF> *),
         <<78, 79, 13, 10, 34, 88, 34, 13, 10, 79, 75, 13, 10>> (* NO<CR><LF><DQ>X<DQ><CR><LF>OK<CR><LF> *), <<79, 75, 13, 10, 34, 76, 65, 78, 71, 85, 65, 71, 69, 34, 32, 34, 101, 110, 34, 13, 10, 78, 79, 13, 10>> (* OK<CR><LF><DQ>LANGUAGE<DQ> <DQ>en<DQ><CR><LF>NO<CR><LF> *) }

TagLineDecoders ==
  { "response_logout", "response_setactive", "response_deletescript",
    "response_putscript", "response_checkscript", "response_havespace",
    "response_renamescript", "response_unauthenticate", "response_noop" }

Decoders ==
  TagLineDecoders \cup
  { "response_authenticate", "response_getscript", "response_listscripts",
    "response_capability", "response_starttls" }

Responses(d) ==
  IF d \in TagLineDecoders THEN TagLines
  ELSE IF d = "response_authenticate" THEN ShortTagLines
  ELSE IF d = "response_getscript" THEN GetScripts
  ELSE IF d = "response_listscripts" THEN ListScripts
  ELSE IF d = "response_capability" THEN Capabilities
  ELSE StartTlss

\* the call of the public function named d
Decode(d, input) ==
  CASE d = "response_authenticate" -> response_authenticate(input)
    [] d = "response_logout" -> response_logout(input)
    [] d = "response_getscript" -> response_getscript(input)
    [] d = "response_setactive" -> response_setactive(input)
    [] d = "response_listscripts" -> response_listscripts(input)
    [] d = "response_deletescript" -> response_deletescript(input)
    [] d = "response_putscript" -> response_putscript(input)
    [] d = "response_checkscript" -> response_checkscript(input)
    [] d = "response_capability" -> response_capability(input)
    [] d = "response_havespace" -> response_havespace(input)
    [] d = "response_starttls" -> response_starttls(input)
    [] d = "response_renamescript" -> response_renamescript(input)
    [] d = "response_noop" -> response_noop(input)
    [] d = "response_unauthenticate" -> response_unauthenticate(input)

----------------------------------------------------------------------------
(* The client of the decoders: it reads from the stream into its buffer,   *)
(* calls the decoder on the whole buffer, keeps the remainder of a         *)
(* success, reads more after IncompleteResponse, and gives up otherwise.   *)

NoCall == [input |-> <<>>, res |-> [k |-> "None"]]
NoCommand == [k |-> "None"]

Wire == sent[1] \o sent[2]

Init ==
  /\ dec \in Decoders
  /\ sent \in Responses(dec) \X Followers
  /\ recvd = 0
  /\ buf = <<>>
  /\ last = NoCall
  /\ retried = FALSE
  /\ out = <<>>
  /\ call = NoCommand
  /\ cmd = NoCommand
  /\ bytes = None

IsIncomplete(r) == r.k = "Err" /\ r.err = "IncompleteResponse"

\* the client gave up: an error that is not IncompleteResponse, or a panic
Dead == last.res.k = "Panic" \/ (last.res.k = "Err" /\ ~IsIncomplete(last.res))

\* retried, forgotten once a call succeeded
Retrying == IF last.res.k = "Ok" THEN FALSE ELSE retried

\* one more character arrives
Receive ==
  /\ ~Dead
  /\ recvd < Len(Wire)
  /\ recvd' = recvd + 1
  /\ buf' = Append(buf, Wire[recvd + 1])
  /\ last' = NoCall
  /\ retried' = Retrying
  /\ UNCHANGED <<dec, sent, out, call, cmd, bytes>>

\* the client calls the decoder on its buffer
Call ==
  /\ last.res.k = "None" \/ (last.res.k = "Ok" /\ buf # <<>>)
  /\ \E r \in {Decode(dec, buf)} :
        /\ last' = [input |-> buf, res |-> r]
        /\ buf' = IF r.k = "Ok" THEN r.rest ELSE buf
        /\ out' = IF r.k = "Ok" THEN Append(out, r.val) ELSE out
        /\ retried' = IF IsIncomplete(r) THEN TRUE ELSE Retrying
  /\ UNCHANGED <<dec, sent, recvd, call, cmd, bytes>>

Next == Receive \/ Call

Spec == Init /\ [][Next]_vars

----------------------------------------------------------------------------
(* The user of the encoder: a command is constructed, converted to its     *)
(* wire string once, then dropped.                                         *)

MaxNameLen == 2

\* on both sides of every boundary of is_bad_sieve_name_char, and the
\* characters a quoted string would have to escape
NameChars == {0, 31, 32, 34, 92, 97, 126, 127, 159, 160, 233, 8231, 8232, 8233, 8234}

Names == SeqsUpTo(NameChars, MaxNameLen)

Sizes == {0, 9, 10, 1205, 2147483647}

Scripts ==
  { <<>>, <<120>> (* x *), <<107, 101, 101, 112, 59, 13, 10>> (* keep;<CR><LF> *), <<233, 8232, 128512>> (* <U+00E9><U+2028><U+1F600> *), <<34, 123, 49, 43, 125, 13, 10, 92>> (* <DQ>{1+}<CR><LF><BS> *), <<48, 49, 50, 51, 52, 53, 54, 55, 56, 57>> (* 0123456789 *) }

InitEncode ==
  /\ dec = "response_noop"
  /\ sent = << <<>>, <<>> >>
  /\ recvd = 0
  /\ buf = <<>>
  /\ last = NoCall
  /\ retried = FALSE
  /\ out = <<>>
  /\ call = NoCommand
  /\ cmd = NoCommand
  /\ bytes = None

\* a constructor is called with args and returns r
Construct(ctor, name, arg, r) ==
  /\ call = NoCommand
  /\ call' = [ctor |-> ctor, name |-> name, arg |-> arg]
  /\ cmd' = r
  /\ UNCHANGED <<dec, sent, recvd, buf, last, retried, out, bytes>>

Authenticate == Construct("authenticate", <<>>, <<>>, authenticate)
StartTls == Construct("start_tls", <<>>, <<>>, start_tls)
Logout == Construct("logout", <<>>, <<>>, logout)
Capability == Construct("capability", <<>>, <<>>, capability)
HaveSpace ==
  /\ call = NoCommand
  /\ \E n \in Names, z \in Sizes : Construct("have_space", n, z, have_space(n, z))
PutScript ==
  /\ call = NoCommand
  /\ \E n \in Names, b \in Scripts : Construct("put_script", n, b, put_script(n, b))
ListScriptsCmd == Construct("list_scripts", <<>>, <<>>, list_scripts)
SetActive ==
  /\ call = NoCommand
  /\ \E n \in Names : Construct("set_active", n, <<>>, set_active(n))
DeleteScript ==
  /\ call = NoCommand
  /\ \E n \in Names : Construct("deletescript", n, <<>>, deletescript(n))
RenameScript ==
  /\ call = NoCommand
  /\ \E n \in Names : Construct("renamescript", n, <<>>, renamescript(n))
CheckScript ==
  /\ call = NoCommand
  /\ \E n \in Names : Construct("checkscript", n, <<>>, checkscript(n))
Noop == Construct("noop", <<>>, <<>>, noop)
UnAuthenticate == Construct("unauthenticate", <<>>, <<>>, unauthenticate)

\* command.to_string(): there is a Command only when the constructor returned Ok
Serialize ==
  /\ cmd.k = "Ok"
  /\ bytes = None
  /\ bytes' = Some(to_string(cmd.val))
  /\ UNCHANGED <<dec, sent, recvd, buf, last, retried, out, call, cmd>>

\* the command, or the error, is dropped
Discard ==
  /\ call # NoCommand
  /\ call' = NoCommand
  /\ cmd' = NoCommand
  /\ bytes' = None
  /\ UNCHANGED <<dec, sent, recvd, buf, last, retried, out>>

NextEncode ==
  \/ Authenticate \/ StartTls \/ Logout \/ Capability \/ HaveSpace \/ PutScript
  \/ ListScriptsCmd \/ SetActive \/ DeleteScript \/ RenameScript \/ CheckScript
  \/ Noop \/ UnAuthenticate
  \/ Serialize \/ Discard

SpecEncode == InitEncode /\ [][NextEncode]_vars

----------------------------------------------------------------------------
(* The caller of a rule of parser.rs that no response_ function of         *)
(* types.rs reaches: it reads from the stream into its buffer and applies  *)
(* the rule to the whole buffer, as the tests of parser.rs do, keeps the   *)
(* remainder of a success, reads more after Incomplete, and gives up on    *)
(* Error, Failure and a panic.                                             *)

ParserRules ==
  { "literal_s2c", "response_authenticate_initial", "response_authenticate_complete" }

\* a header and what follows it: contents with CR, LF, NUL, a quote and
\* braces, contents of several octets a character, lengths that end inside
\* a character, and headers the grammar refuses
Literals ==
  { <<123, 51, 125, 13, 10, 97, 98, 99>> (* {3}<CR><LF>abc *), <<123, 48, 125, 13, 10>> (* {0}<CR><LF> *), <<123, 55, 125, 13, 10, 13, 10, 0, 34, 125, 123, 10>> (* {7}<CR><LF><CR><LF><U+0000><DQ>}{<LF> *), <<123, 50, 125, 13, 10, 233>> (* {2}<CR><LF><U+00E9> *),
    <<123, 54, 125, 13, 10, 97, 8232, 233>> (* {6}<CR><LF>a<U+2028><U+00E9> *), <<123, 49, 125, 13, 10, 233>> (* {1}<CR><LF><U+00E9> *), <<123, 50, 125, 13, 10, 97, 233>> (* {2}<CR><LF>a<U+00E9> *),
    <<123, 120, 125, 13, 10, 97, 98, 99>> (* {x}<CR><LF>abc *), <<123, 49, 125, 97, 98, 99>> (* {1}abc *), <<123, 48, 49, 125, 13, 10, 97, 98>> (* {01}<CR><LF>ab *) }

AuthInitials ==
  { <<123, 52, 125, 13, 10, 97, 98, 99, 100, 13, 10>> (* {4}<CR><LF>abcd<CR><LF> *), <<34, 97, 98, 99, 34, 13, 10>> (* <DQ>abc<DQ><CR><LF> *), <<66, 89, 69, 13, 10>> (* BYE<CR><LF> *), <<78, 79, 32, 34, 120, 34, 13, 10>> (* NO <DQ>x<DQ><CR><LF> *), <<79, 75, 13, 10>> (* OK<CR><LF> *) }

AuthCompletes ==
  { <<79, 75, 13, 10>> (* OK<CR><LF> *), <<79, 75, 32, 34, 104, 105, 34, 13, 10>> (* OK <DQ>hi<DQ><CR><LF> *), <<79, 75, 32, 40, 83, 65, 83, 76, 32, 34, 120, 34, 41, 13, 10>> (* OK <LP>SASL <DQ>x<DQ><RP><CR><LF> *),
    <<79, 75, 13, 10, 34, 67, 65, 80, 65, 66, 73, 76, 73, 84, 89, 49, 34, 13, 10, 34, 67, 65, 80, 65, 66, 73, 76, 73, 84, 89, 50, 34, 13, 10, 79, 75, 13, 10>> (* OK<CR><LF><DQ>CAPABILITY1<DQ><CR><LF><DQ>CAPABILITY2<DQ><CR><LF>OK<CR><LF> *),
    <<79, 75, 13, 10, 34, 83, 65, 83, 76, 34, 32, 34, 65, 32, 66, 34, 13, 10, 78, 79, 13, 10>> (* OK<CR><LF><DQ>SASL<DQ> <DQ>A B<DQ><CR><LF>NO<CR><LF> *), <<79, 75, 13, 10, 79, 75, 13, 10>> (* OK<CR><LF>OK<CR><LF> *),
    <<66, 89, 69, 13, 10>> (* BYE<CR><LF> *), <<78, 79, 32, 40, 84, 82, 89, 76, 65, 84, 69, 82, 41, 13, 10>> (* NO <LP>TRYLATER<RP><CR><LF> *), <<72, 73, 13, 10>> (* HI<CR><LF> *) }

RuleInputs(d) ==
  IF d = "literal_s2c" THEN Literals
  ELSE IF d = "response_authenticate_initial" THEN AuthInitials
  ELSE AuthCompletes

\* the call of the rule named d
Parse(d, input) ==
  CASE d = "literal_s2c" -> literal_s2c(input)
    [] d = "response_authenticate_initial" -> p_response_authenticate_initial(input)
    [] d = "response_authenticate_complete" -> p_response_authenticate_complete(input)

InitParse ==
  /\ dec \in ParserRules
  /\ sent \in RuleInputs(dec) \X Followers
  /\ recvd = 0
  /\ buf = <<>>
  /\ last = NoCall
  /\ retried = FALSE
  /\ out = <<>>
  /\ call = NoCommand
  /\ cmd = NoCommand
  /\ bytes = None

\* the caller gave up: Error, Failure or a panic
DeadParse == last.res.k \in {"Error", "Failure", "Panic"}

\* one more character arrives
ReceiveParse ==
  /\ ~DeadParse
  /\ recvd < Len(Wire)
  /\ recvd' = recvd + 1
  /\ buf' = Append(buf, Wire[recvd + 1])
  /\ last' = NoCall
  /\ retried' = Retrying
  /\ UNCHANGED <<dec, sent, out, call, cmd, bytes>>

\* the caller applies the rule to its buffer
Apply ==
  /\ last.res.k = "None" \/ (last.res.k = "Ok" /\ buf # <<>>)
  /\ \E r \in {Parse(dec, buf)} :
        /\ last' = [input |-> buf, res |-> r]
        /\ buf' = IF r.k = "Ok" THEN r.rest ELSE buf
        /\ out' = IF r.k = "Ok" THEN Append(out, r.val) ELSE out
        /\ retried' = IF r.k = "Incomplete" THEN TRUE ELSE Retrying
  /\ UNCHANGED <<dec, sent, recvd, call, cmd, bytes>>

NextParse == ReceiveParse \/ Apply

SpecParse == InitParse /\ [][NextParse]_vars

----------------------------------------------------------------------------
(* Properties of the decoders, under Spec *)

\* d accepts B as one complete response: it succeeds and consumes all of B
Accepts(d, B) == Bind(Decode(d, B), LAMBDA r : r.k = "Ok" /\ r.rest = <<>>)

\* the decoder was called, on what was received from the start of the stream
FirstCall ==
  /\ last.res.k # "None"
  /\ Len(out) = (IF last.res.k = "Ok" THEN 1 ELSE 0)

\* C1: when the decoder accepts B as one complete response, its call on any
\* strict prefix of B (the empty buffer included) returns IncompleteResponse,
\* neither another error nor a success; and its call on B after such failed
\* calls returns what a single call on B returns.
C1_PrefixIsIncomplete ==
  (FirstCall /\ Accepts(dec, sent[1])) =>
    /\ Len(last.input) < Len(sent[1]) => last.res = Fail("IncompleteResponse")
    /\ (last.input = sent[1] /\ retried) =>
         /\ last.res = Decode(dec, sent[1])
         /\ out = <<last.res.val>>
         /\ buf = <<>>

C1_Witness ==
  /\ dec = "response_listscripts"
  /\ FirstCall
  /\ retried
  /\ last.input = sent[1]
  /\ last.res.k = "Ok"
  /\ Len(last.res.val[1]) = 2

\* C2: when the buffer is a complete response R1 that the decoder accepts
\* followed by any further bytes, the call returns the value of R1 and as
\* remainder exactly those further bytes; and a client that keeps decoding
\* from the remainder gets the pipelined responses in the order they were
\* sent and ends with an empty remainder.
C2_RemainderIsTheRest ==
  Accepts(dec, sent[1]) =>
    /\ (FirstCall /\ Len(last.input) >= Len(sent[1])) =>
         /\ last.res.k = "Ok"
         /\ last.res.val = Decode(dec, sent[1]).val
         /\ last.res.rest = Drop(last.input, Len(sent[1]))
    /\ (/\ sent[2] # <<>>
        /\ Accepts(dec, sent[2])
        /\ recvd = Len(Wire)
        /\ last.res.k # "None"
        /\ ~(last.res.k = "Ok" /\ buf # <<>>)) =>
         /\ out = <<Decode(dec, sent[1]).val, Decode(dec, sent[2]).val>>
         /\ buf = <<>>

C2_Witness ==
  /\ dec = "response_capability"
  /\ Len(out) = 2
  /\ Len(out[1][1]) = 2
  /\ Len(out[2][1]) = 1
  /\ recvd = Len(Wire)
  /\ buf = <<>>
  /\ ~retried

\* C3: every decoder fails with IncompleteResponse or InvalidResponse and
\* nothing else; a definite grammar mismatch is InvalidResponse, for the
\* decoders of a tag line alone too.
C3_TwoErrorKinds ==
  last.res.k = "Err" => last.res.err \in {"IncompleteResponse", "InvalidResponse"}

\* C4: a successful LISTSCRIPTS decode returns a list with at most one
\* active entry; a response that matches the grammar and marks two or more
\* entries active is InvalidResponse, whatever its tag line.
C4_AtMostOneActive ==
  (dec = "response_listscripts" /\ last.res.k # "None") =>
    /\ last.res.k = "Ok" => active_count(last.res.val[1]) <= 1
    /\ Bind(p_response_listscripts(last.input), LAMBDA g :
         (g.k = "Ok" /\ active_count(g.val[1]) >= 2) =>
           last.res = Fail("InvalidResponse"))

C4_Witness ==
  /\ dec = "response_listscripts"
  /\ last.res = Fail("InvalidResponse")
  /\ Bind(p_response_listscripts(last.input), LAMBDA g :
       /\ g.k = "Ok"
       /\ active_count(g.val[1]) = 2
       /\ g.val[2].tag = "No")

\* the example of the LISTSCRIPTS claims
ListExample == <<34, 97, 34, 13, 10, 34, 98, 34, 32, 65, 67, 84, 73, 86, 69, 13, 10, 34, 99, 34, 32, 97, 99, 116, 105, 118, 101, 13, 10, 79, 75, 13, 10>> (* <DQ>a<DQ><CR><LF><DQ>b<DQ> ACTIVE<CR><LF><DQ>c<DQ> active<CR><LF>OK<CR><LF> *)

\* C5, as claimed: the example decodes, and "b" alone is active.
C5_ExampleHasOneActive ==
  (dec = "response_listscripts" /\ FirstCall /\ last.input = ListExample) =>
    /\ last.res.k = "Ok"
    /\ last.res.val[1] = << <<<<97>> (* a *), FALSE>>, <<<<98>> (* b *), TRUE>>, <<<<99>> (* c *), FALSE>> >>

\* C5, amended: the example matches the grammar with "b" and "c" both
\* marked active, the mark being read without regard to case, so the
\* LISTSCRIPTS decode fails with InvalidResponse.
C5_ExampleIsInvalid ==
  (dec = "response_listscripts" /\ FirstCall /\ last.input = ListExample) =>
    /\ last.res = Fail("InvalidResponse")
    /\ p_response_listscripts(last.input).k = "Ok"
    /\ p_response_listscripts(last.input).val[1] =
         << <<<<97>> (* a *), FALSE>>, <<<<98>> (* b *), TRUE>>, <<<<99>> (* c *), TRUE>> >>
    /\ p_response_listscripts(last.input).val[2].tag = "Ok"

C5_Witness ==
  /\ dec = "response_listscripts"
  /\ FirstCall
  /\ last.input = ListExample
  /\ sent[1] = ListExample

\* the capability variant the claim gives the line (name, value)
ClaimedCapability(name, value) ==
  IF name = <<73, 77, 80, 76, 69, 77, 69, 78, 84, 65, 84, 73, 79, 78>> (* IMPLEMENTATION *) THEN <<"Implementation", value[1]>>
  ELSE IF name = <<83, 65, 83, 76>> (* SASL *) THEN <<"Sasl", split(value[1])>>
  ELSE IF name = <<83, 73, 69, 86, 69>> (* SIEVE *) THEN <<"Sieve", split(value[1])>>
  ELSE IF name = <<83, 84, 65, 82, 84, 84, 76, 83>> (* STARTTLS *) THEN <<"StartTls">>
  ELSE IF name = <<77, 65, 88, 82, 69, 68, 73, 82, 69, 67, 84, 83>> (* MAXREDIRECTS *) THEN <<"MaxRedirects", parse_usize(value[1])[1]>>
  ELSE IF name = <<78, 79, 84, 73, 70, 89>> (* NOTIFY *) THEN <<"Notify", split(value[1])>>
  ELSE IF name = <<76, 65, 78, 71, 85, 65, 71, 69>> (* LANGUAGE *) THEN <<"Language", value[1]>>
  ELSE IF name = <<79, 87, 78, 69, 82>> (* OWNER *) THEN <<"Owner", value[1]>>
  ELSE IF name = <<86, 69, 82, 83, 73, 79, 78>> (* VERSION *) THEN <<"Version", value[1]>>
  ELSE <<"Unknown", name, value>>

\* C6: a CAPABILITY decode gives each line the variant of its name, in the
\* order of the lines.
C6_CapabilityByName ==
  (dec = "response_capability" /\ last.res.k = "Ok") =>
    Bind(p_response_capability(last.input).val[1], LAMBDA lines :
      /\ Len(last.res.val[1]) = Len(lines)
      /\ \A i \in 1..Len(lines) :
           last.res.val[1][i] = ClaimedCapability(lines[i][1], lines[i][2]))

\* the value v is no unsigned integer
NotUnsigned(v) == \E i \in 1..Len(v) : ~is_dec_digit(v[i]) /\ v[i] # 43

\* C7: a CAPABILITY or STARTTLS response that matches the grammar and has a
\* MAXREDIRECTS line whose value is no unsigned integer decodes to the error
\* InvalidResponse: no abort, no capabilities.
C7_BadMaxRedirectsIsInvalid ==
  (dec \in {"response_capability", "response_starttls"} /\ last.res.k # "None") =>
    Bind(IF dec = "response_capability" THEN p_response_capability(last.input)
         ELSE p_response_starttls(last.input), LAMBDA g :
      (/\ g.k = "Ok"
       /\ \E i \in 1..Len(g.val[1]) :
            /\ g.val[1][i][1] = <<77, 65, 88, 82, 69, 68, 73, 82, 69, 67, 84, 83>> (* MAXREDIRECTS *)
            /\ g.val[1][i][2] # None
            /\ NotUnsigned(g.val[1][i][2][1])) =>
        last.res = Fail("InvalidResponse"))

\* C8: GETSCRIPT decode accepts a bare NO or BYE tag line: a success that
\* returns the tag line's response.
C8_GetScriptAbsent ==
  (dec = "response_getscript" /\ last.res.k # "None") =>
    Bind(response_nobye(last.input), LAMBDA g :
      g.k = "Ok" => (last.res.k = "Ok" /\ last.res.rest = g.rest))

-----------------------------------------------------------------------------
(* Properties of the commands, under SpecEncode *)

\* b ends with CRLF
EndsWithCrlf(b) == Len(b) >= 2 /\ b[Len(b) - 1] = 13 /\ b[Len(b)] = 10

\* the constructors that take a script name
NamedCtors ==
  {"have_space", "put_script", "set_active", "deletescript", "renamescript", "checkscript"}

\* b is PUTSCRIPT "name" {len+} CRLF body CRLF, len being the decimal
\* number of octets of body
IsPutScript(b, name, body) ==
  Bind(<<80, 85, 84, 83, 67, 82, 73, 80, 84, 32, 34>> (* PUTSCRIPT <DQ> *) \o name \o <<34, 32, 123>> (* <DQ> { *), LAMBDA head :
    Bind(<<43, 125, 13, 10>> (* +}<CR><LF> *) \o body \o <<13, 10>> (* <CR><LF> *), LAMBDA tail :
      /\ Len(b) > Len(head) + Len(tail)
      /\ Take(b, Len(head)) = head
      /\ Drop(b, Len(b) - Len(tail)) = tail
      /\ Bind(SubSeq(b, Len(head) + 1, Len(b) - Len(tail)), LAMBDA digits :
           /\ \A i \in 1..Len(digits) : is_dec_digit(digits[i])
           /\ parse_digits(digits, 0) = str_len(body))))

\* C9: every Command has a wire string, and it ends with CRLF; that of
\* PUTSCRIPT is PUTSCRIPT "name" {len+} CRLF body CRLF with len the length
\* of the body in octets.
C9_EncodingEndsInCrlf ==
  /\ cmd.k = "Ok" => EndsWithCrlf(to_string(cmd.val))
  /\ bytes # None =>
       /\ cmd.k = "Ok"
       /\ bytes[1] = to_string(cmd.val)
       /\ EndsWithCrlf(bytes[1])
       /\ call.ctor = "put_script" => IsPutScript(bytes[1], call.name, call.arg)

C9_Witness ==
  /\ bytes # None
  /\ call.ctor = "put_script"
  /\ call.name = <<97, 233>> (* a<U+00E9> *)
  /\ call.arg = <<233, 8232, 128512>> (* <U+00E9><U+2028><U+1F600> *)
  /\ bytes[1] = <<80, 85, 84, 83, 67, 82, 73, 80, 84, 32, 34, 97, 233, 34, 32, 123, 57, 43, 125, 13, 10, 233, 8232, 128512, 13, 10>> (* PUTSCRIPT <DQ>a<U+00E9><DQ> {9+}<CR><LF><U+00E9><U+2028><U+1F600><CR><LF> *)

\* the name has a character of U+0000-U+001F, U+007F-U+009F, U+2028, U+2029
HasControl(name) ==
  \E i \in 1..Len(name) :
    \/ name[i] \in 0..31
    \/ name[i] \in 127..159
    \/ name[i] \in {8232, 8233}

\* C10: a constructor that takes a script name fails, with no Command and
\* no bytes, exactly when the name has a character of U+0000-U+001F,
\* U+007F-U+009F, U+2028 or U+2029; otherwise it returns the command that
\* carries the name unchanged.
C10_NameValidation ==
  (call # NoCommand /\ call.ctor \in NamedCtors) =>
    /\ cmd.k = "Err" <=> HasControl(call.name)
    /\ cmd.k = "Err" => bytes = None
    /\ cmd.k # "Err" => (cmd.k = "Ok" /\ cmd.val.name = call.name)

C10_Witness ==
  /\ call # NoCommand
  /\ call.ctor = "renamescript"
  /\ call.name = <<97, 8233>> (* a<U+2029> *)
  /\ cmd.k = "Err"
  /\ bytes = None

-----------------------------------------------------------------------------
(* Properties of the rules of parser.rs, under SpecParse *)

\* C11: for a literal whose header claims length N, the content returned is
\* exactly the N octets after the header's CRLF, whatever they are, and the
\* remainder is what follows them; when fewer than N octets follow the
\* header the outcome is Incomplete.
C11_LiteralIsNOctets ==
  (dec = "literal_s2c" /\ last.res.k # "None") =>
    Bind(literal_s2c_len(last.input), LAMBDA h :
      h.k = "Ok" =>
        IF str_len(h.rest) < h.val THEN last.res = Incomplete
        ELSE /\ last.res.k = "Ok"
             /\ last.res.val \o last.res.rest = h.rest
             /\ str_len(last.res.val) = h.val)

\* C12: the rule for the answer to the client's AUTHENTICATE response
\* accepts a buffer that is one OK tag line and nothing else: it succeeds
\* with that response and no capability list.
C12_BareOkIsAccepted ==
  (dec = "response_authenticate_complete" /\ last.res.k # "None") =>
    Bind(response_ok(last.input), LAMBDA g :
      (g.k = "Ok" /\ g.rest = <<>>) => last.res = Ok(<<>>, <<None, g.val>>))

-----------------------------------------------------------------------------
(* Properties of the decoded script names, under Spec *)

\* C13: every script name a successful LISTSCRIPTS decode returns has no
\* character of U+0000-U+001F, U+007F-U+009F, U+2028 or U+2029: a response
\* holding a name with such a character is not decoded successfully.
C13_DecodedNamesAreValid ==
  (dec = "response_listscripts" /\ last.res.k = "Ok") =>
    \A i \in 1..Len(last.res.val[1]) : ~HasControl(last.res.val[1][i][1])

====
